---- MODULE Spec2Model ----
\* Model of the padding routines of iFR (src/iFR.py, class Support) and of
\* the write handler PageWrite.OnWrite that pads a temporary copy:
\* RemovePadding strips trailing 0xFF bytes from a ROM dump file,
\* AddPadding appends 0xFF bytes up to a requested size.
\* The file on disk is a sequence of bytes; a call log records every
\* completed call (normal return or raised exception).
EXTENDS Integers, Sequences, FiniteSets, TLC

\* ------------------------------------------------------------------ bounds
MaxLen == 4
MaxTarget == 5
MaxCalls == 2
MaxWrites == 2
MaxOutsideLen == 2

\* ------------------------------------------------------- program constants
FillByte == 255

\* bytes a file may hold: two distinct non-fill values and the fill byte
Bytes == {1, 2, FillByte}

\* result_size is int(chipsize): any integer, negative ones included
Targets == (0 - MaxTarget)..MaxTarget

RECURSIVE SeqsUpTo(_)
SeqsUpTo(n) ==
  IF n = 0 THEN {<<>>}
  ELSE LET S == SeqsUpTo(n - 1)
       IN S \cup {Append(s, b) : s \in {t \in S : Len(t) = n - 1}, b \in Bytes}

Files == SeqsUpTo(MaxLen)

\* contents the selected file may have when it is written outside OnWrite,
\* and contents flashrom -r may read from the chip: one non-fill value and
\* the fill byte
OutsideFiles ==
  {f \in SeqsUpTo(MaxOutsideLen) : \A i \in 1..Len(f) : f[i] \in {1, FillByte}}

VARIABLES
  file,          \* content of the file at file_path
  pc,            \* position inside RemovePadding, "idle" between calls
  padding_size,  \* local variable of RemovePadding
  pos,           \* position of the open file object
  byte,          \* result of the last file.read(1): <<b>> or <<>>
  reads,         \* number of file.read(1) calls of the current call
  before,        \* content of the file when the current call started
  calls,         \* log of completed calls
  wpc,           \* position of the UI thread inside the running handler
                 \* (OnWrite or GetChipInfo), "idle" between events
  pad_file,      \* value of the "Pad file to match chip size" checkbox
  filepath,      \* local filepath of the running handler: "selected" (the
                 \* file picked on the write page), "copy" (its copy's path
                 \* in the temporary directory) or "other"
  filecopy,      \* the file at the copy's path in the temporary directory:
                 \* <<>> when there is none, else <<content>>
  chipsize,      \* local of OnWrite: last line of flashrom --flash-size
  trace,         \* what the current OnWrite has done so far, in order
  source,        \* selected file as shutil.copy or flashrom read it: <<>>, <<c>>
  flashrom,      \* the running flashrom -w: <<>> or <<[path, image]>>
  outside,       \* what was last put at the selected path from outside OnWrite
  written,       \* how the last OnWrite ended: <<>> or <<record>>
  nwrites        \* number of completed OnWrite events

wvars == <<wpc, pad_file, filepath, filecopy, chipsize, trace, source,
           flashrom, outside, written, nwrites>>

vars == <<file, pc, padding_size, pos, byte, reads, before, calls, wvars>>

\* ------------------------------------------------------------ pure helpers

\* offset handed to file.seek(offset, 2)
SeekEndOffset(n) == 0 - 1 - n

\* absolute position file.seek(offset, 2) asks for; a negative one makes
\* the seek raise OSError(EINVAL)
SeekTarget(size, offset) == size + offset

\* file.read(1) at position p: one byte, or b'' at end of file
Read1(f, p) == IF p >= 0 /\ p < Len(f) THEN <<f[p + 1]>> ELSE <<>>

\* byte == b'\xFF'
MutIsFill(b) == b # <<>>
IsFill(b) == b = <<FillByte>>

\* os.path.getsize(file_path) - padding_size
TruncatedSize(size, n) == size - n

\* os.truncate(path, n): keeps the first n bytes, zero-fills when growing
Truncate(f, n) ==
  IF n <= Len(f) THEN SubSeq(f, 1, n)
  ELSE f \o [i \in 1..(n - Len(f)) |-> 0]

\* padding_size = result_size - current_size
MutPaddingSize(result_size, current_size) == result_size
PaddingSize(result_size, current_size) == result_size - current_size

\* b'\xFF' * n  (a non-positive count gives the empty bytes object)
BytesRepeat(b, n) == IF n <= 0 THEN <<>> ELSE [i \in 1..n |-> b]

\* open(file_path, 'ab') ... file.write(b'\xFF' * n): the bytes go to the end
\* of the file, whatever was there stays
MutAppendFill(f, n) ==
  IF n < 0 THEN SubSeq(f, 1, Len(f) + n) ELSE f \o BytesRepeat(FillByte, n)
AppendFill(f, n) == f \o BytesRepeat(FillByte, n)

\* record of a completed call; ret is <<value>> on return, <<>> on raise
CallRecord(o, t, b, a, r, x, n) ==
  [op |-> o, target |-> t, before |-> b, after |-> a,
   ret |-> r, raised |-> x, reads |-> n]

\* ------------------------------------------------------------------- Init
Init ==
  /\ file \in Files
  /\ pc = "idle"
  /\ padding_size = 0
  /\ pos = 0
  /\ byte = <<>>
  /\ reads = 0
  /\ before = file
  /\ calls = <<>>
  /\ wpc = "idle"
  /\ pad_file = FALSE
  /\ filepath = "selected"
  /\ filecopy = <<>>
  /\ chipsize = [kind |-> "number", value |-> 0]
  /\ trace = <<>>
  /\ source = <<>>
  /\ flashrom = <<>>
  /\ outside = file
  /\ written = <<>>
  /\ nwrites = 0

\* ---------------------------------------------------------- RemovePadding

\* open(file_path, 'rb'); padding_size = 0
RemovePadding_Open ==
  /\ pc = "idle"
  /\ Len(calls) < MaxCalls
  /\ pc' = "seek"
  /\ padding_size' = 0
  /\ pos' = 0
  /\ byte' = <<>>
  /\ reads' = 0
  /\ before' = file
  /\ UNCHANGED <<file, calls>>
  /\ UNCHANGED wvars

\* file.seek(-1 - padding_size, 2); a negative target raises OSError, which
\* leaves the with-block and the function without truncating
RemovePadding_Seek ==
  /\ pc = "seek"
  /\ LET t == SeekTarget(Len(file), SeekEndOffset(padding_size))
     IN IF t < 0
        THEN /\ pc' = "idle"
             /\ calls' = Append(calls,
                  CallRecord("RemovePadding", 0, before, file, <<>>, TRUE, reads))
             /\ UNCHANGED pos
        ELSE /\ pc' = "read"
             /\ pos' = t
             /\ UNCHANGED calls
  /\ UNCHANGED <<file, padding_size, byte, reads, before>>
  /\ UNCHANGED wvars

\* byte = file.read(1)
RemovePadding_Read ==
  /\ pc = "read"
  /\ byte' = Read1(file, pos)
  /\ pos' = pos + Len(Read1(file, pos))
  /\ reads' = reads + 1
  /\ pc' = "test"
  /\ UNCHANGED <<file, padding_size, before, calls>>
  /\ UNCHANGED wvars

\* if byte == b'': break / if byte == b'\xFF': padding_size += 1 / else: break
RemovePadding_Test ==
  /\ pc = "test"
  /\ IF byte = <<>>
     THEN pc' = "truncate" /\ UNCHANGED padding_size
     ELSE IF IsFill(byte)
          THEN pc' = "seek" /\ padding_size' = padding_size + 1
          ELSE pc' = "truncate" /\ UNCHANGED padding_size
  /\ UNCHANGED <<file, pos, byte, reads, before, calls>>
  /\ UNCHANGED wvars

\* os.truncate(file_path, os.path.getsize(file_path) - padding_size)
\* return padding_size
RemovePadding_Truncate ==
  /\ pc = "truncate"
  /\ file' = Truncate(file, TruncatedSize(Len(file), padding_size))
  /\ calls' = Append(calls,
       CallRecord("RemovePadding", 0, before, file', <<padding_size>>, FALSE, reads))
  /\ pc' = "idle"
  /\ UNCHANGED <<padding_size, pos, byte, reads, before>>
  /\ UNCHANGED wvars

\* ------------------------------------------------------------- AddPadding

\* open(file_path, 'ab'); seek(0, 2); current_size = tell();
\* padding_size = result_size - current_size; write(b'\xFF' * padding_size);
\* return padding_size
AddPadding(result_size) ==
  /\ pc = "idle"
  /\ Len(calls) < MaxCalls
  /\ LET current_size == Len(file)
         n == PaddingSize(result_size, current_size)
     IN /\ file' = AppendFill(file, n)
        /\ calls' = Append(calls,
             CallRecord("AddPadding", result_size, file, file', <<n>>, FALSE, 0))
        /\ before' = file
  /\ UNCHANGED <<pc, padding_size, pos, byte, reads>>
  /\ UNCHANGED wvars

Next ==
  \/ RemovePadding_Open
  \/ RemovePadding_Seek
  \/ RemovePadding_Read
  \/ RemovePadding_Test
  \/ RemovePadding_Truncate
  \/ \E t \in Targets : AddPadding(t)

Spec == Init /\ [][Next]_vars

\* ------------------------------------------------------ PageWrite.OnWrite

\* variables of the Support calls made outside OnWrite
svars == <<pc, padding_size, pos, byte, reads, before, calls>>

\* what flashrom --flash-size printed last: nothing, a line that is not
\* UTF-8, a line that is not a number, or a number
ChipSizeOutputs ==
  {[kind |-> "empty", value |-> 0], [kind |-> "binary", value |-> 0],
   [kind |-> "text", value |-> 0]}
    \cup {[kind |-> "number", value |-> t] : t \in Targets}

\* Support.AddPadding(filecopy, ...): the path that is padded
PadPath(path, copy) == copy

\* filepath = filecopy
MutFlashPath(path, copy) == path
FlashPath(path, copy) == copy

\* chipsize before line 231 has assigned it
NoChipSize == [kind |-> "number", value |-> 0]

\* record of a completed OnWrite
WriteRecord(o, t) == [outcome |-> o, pad |-> pad_file, trace |-> t]

\* the handler ends: by return, by an exception, or after flashrom has run;
\* its locals and the flashrom process are gone
OnWrite_End(o, t) ==
  /\ wpc' = "idle"
  /\ trace' = t
  /\ chipsize' = NoChipSize
  /\ source' = <<>>
  /\ flashrom' = <<>>
  /\ written' = <<WriteRecord(o, t)>>
  /\ nwrites' = nwrites + 1

\* OnWrite holds the selected file by its path only: another process may
\* rewrite the file at any time, also while a handler waits for the dialog
\* or for flashrom
Outside_Write(f) ==
  /\ f # file
  /\ file' = f
  /\ outside' = f
  /\ UNCHANGED <<wpc, pad_file, filepath, filecopy, chipsize, trace, source,
                 flashrom, written, nwrites, svars>>

\* the loop of Support.RemovePadding on content f, n fill bytes counted so
\* far: the count it ends with, or -1 when file.seek raises OSError
RECURSIVE ScanPadding(_, _)
ScanPadding(f, n) ==
  LET t == SeekTarget(Len(f), SeekEndOffset(n))
  IN IF t < 0 THEN 0 - 1
     ELSE IF Read1(f, t) = <<>> THEN n
     ELSE IF IsFill(Read1(f, t)) THEN ScanPadding(f, n + 1)
     ELSE n

\* content of a file after Support.RemovePadding has run on content f: left
\* as it is when the call raises, else truncated by the count
Stripped(f) ==
  IF ScanPadding(f, 0) < 0 THEN f
  ELSE Truncate(f, TruncatedSize(Len(f), ScanPadding(f, 0)))

\* what flashrom -r does to the file it is given: <<>> when the read fails
\* and nothing is written, <<d>> when content d is written
Dumps == {<<>>} \cup {<<d>> : d \in OutsideFiles}

\* PageInfo.GetChipInfo up to flashrom -r <tempdir>/temp.bin, which is the
\* copy's path when the selected file is named temp.bin: the early return
\* without a chip, an exception while the chip name and size are parsed,
\* else the chip is read into the file (dump <<d>>) or the read fails and
\* leaves what is there (dump <<>>)
GetChipInfo_Read(nchips, parsed, dump) ==
  /\ wpc = "idle"
  /\ IF nchips = 0 \/ ~parsed
     THEN UNCHANGED <<wpc, filecopy>>
     ELSE /\ wpc' = "temp_bin"
          /\ filecopy' = IF dump = <<>> THEN filecopy ELSE dump
  /\ UNCHANGED <<file, pad_file, filepath, chipsize, trace, source,
                 flashrom, outside, written, nwrites, svars>>

\* if os.path.isfile(temp.bin): Support.RemovePadding(temp.bin); the rest of
\* GetChipInfo writes no file
GetChipInfo_RemovePadding ==
  /\ wpc = "temp_bin"
  /\ wpc' = "idle"
  /\ filecopy' = IF filecopy = <<>> THEN <<>> ELSE <<Stripped(filecopy[1])>>
  /\ UNCHANGED <<file, pad_file, filepath, chipsize, trace, source,
                 flashrom, outside, written, nwrites, svars>>

\* paths the picker of the read page may hold
SavePaths == {"selected", "copy", "other"}

\* PageRead.OnSave up to the end of flashrom -r filepath: the two early
\* returns, else the chip is read into the file at filepath (dump <<d>>) or
\* the read fails and leaves what is there (dump <<>>)
OnSave_Read(has_path, nchips, path, dump) ==
  /\ wpc = "idle"
  /\ IF ~has_path \/ nchips = 0
     THEN UNCHANGED <<wpc, filepath, file, outside, filecopy>>
     ELSE /\ wpc' = "saved"
          /\ filepath' = path
          /\ file' = IF path = "selected" /\ dump # <<>> THEN dump[1] ELSE file
          /\ outside' = file'
          /\ filecopy' = IF path = "copy" /\ dump # <<>> THEN dump ELSE filecopy
  /\ UNCHANGED <<pad_file, chipsize, trace, source, flashrom, written,
                 nwrites, svars>>

\* if self.remove_padding.GetValue() and os.path.isfile(filepath):
\* Support.RemovePadding(filepath); the checkbox is read here and the handler
\* ends, its local dropped
OnSave_RemovePadding(remove_padding) ==
  /\ wpc = "saved"
  /\ wpc' = "idle"
  /\ filepath' = "selected"
  /\ file' = IF remove_padding /\ filepath = "selected"
             THEN Stripped(file) ELSE file
  /\ outside' = file'
  /\ filecopy' = IF remove_padding /\ filepath = "copy" /\ filecopy # <<>>
                 THEN <<Stripped(filecopy[1])>> ELSE filecopy
  /\ UNCHANGED <<pad_file, chipsize, trace, source, flashrom, written,
                 nwrites, svars>>

\* the "Pad file to match chip size" checkbox changes value, between two
\* events or while OnWrite waits in the warning dialog
PadFile_Toggle ==
  /\ wpc \in {"idle", "dialog"}
  /\ pad_file' = ~pad_file
  /\ UNCHANGED <<file, wpc, filepath, filecopy, chipsize, trace, source,
                 flashrom, outside, written, nwrites, svars>>

\* filepath = self.filepicker.GetPath(); the two early returns; then the
\* warning dialog opens and the handler waits in ShowModal()
OnWrite_Begin(has_path, nchips) ==
  /\ wpc = "idle"
  /\ nwrites < MaxWrites
  /\ filepath' = "selected"
  /\ UNCHANGED <<file, filecopy, pad_file, outside, svars>>
  /\ IF ~has_path THEN OnWrite_End("no_file", <<>>)
     ELSE IF nchips = 0 THEN OnWrite_End("no_chip", <<>>)
     ELSE /\ wpc' = "dialog"
          /\ trace' = <<>>
          /\ written' = <<>>
          /\ UNCHANGED <<chipsize, source, flashrom, nwrites>>

\* warndlg.ShowModal() returns: wx.ID_NO returns from the handler, otherwise
\* self.pad_file.GetValue() is read
OnWrite_ShowModal(answer_yes) ==
  /\ wpc = "dialog"
  /\ UNCHANGED <<file, filecopy, pad_file, filepath, outside, svars>>
  /\ IF ~answer_yes THEN OnWrite_End("declined", trace)
     ELSE /\ wpc' = IF pad_file THEN "chipsize" ELSE "flashrom"
          /\ UNCHANGED <<chipsize, trace, source, flashrom, written, nwrites>>

\* chipsize = subprocess.Popen([... "--flash-size"]).stdout.readlines()[-1]
\* .decode('utf-8').strip(); no output line raises IndexError, a last line
\* that is not UTF-8 raises UnicodeDecodeError
OnWrite_ChipSize(out) ==
  /\ wpc = "chipsize"
  /\ UNCHANGED <<file, filecopy, pad_file, filepath, outside, svars>>
  /\ IF out.kind = "empty" THEN OnWrite_End("IndexError", trace)
     ELSE IF out.kind = "binary" THEN OnWrite_End("UnicodeDecodeError", trace)
     ELSE /\ chipsize' = out
          /\ wpc' = "copy"
          /\ UNCHANGED <<trace, source, flashrom, written, nwrites>>

\* filecopy = shutil.copy(filepath, self.constants.tempdir); a selected file
\* that already is the file of that name in tempdir raises SameFileError
OnWrite_Copy(same_file) ==
  /\ wpc = "copy"
  /\ UNCHANGED <<file, pad_file, filepath, outside, svars>>
  /\ IF same_file
     THEN /\ UNCHANGED filecopy
          /\ OnWrite_End("SameFileError", trace)
     ELSE /\ filecopy' = <<file>>
          /\ source' = <<file>>
          /\ wpc' = "pad"
          /\ trace' = Append(trace, "copy")
          /\ UNCHANGED <<chipsize, flashrom, written, nwrites>>

\* padresult = Support.AddPadding(filecopy, int(chipsize)); int() of a line
\* that is not a number raises ValueError; filepath = filecopy
OnWrite_AddPadding ==
  /\ wpc = "pad"
  /\ UNCHANGED <<pad_file, outside, svars>>
  /\ IF chipsize.kind # "number"
     THEN /\ UNCHANGED <<file, filecopy, filepath>>
          /\ OnWrite_End("ValueError", trace)
     ELSE /\ LET target == PadPath(filepath, "copy")
                 content == IF target = "copy" THEN filecopy[1] ELSE file
                 padded == AppendFill(content,
                             PaddingSize(chipsize.value, Len(content)))
             IN IF target = "copy"
                THEN filecopy' = <<padded>> /\ UNCHANGED file
                ELSE file' = padded /\ UNCHANGED filecopy
          /\ filepath' = FlashPath(filepath, "copy")
          /\ wpc' = "flashrom"
          /\ trace' = Append(trace, "AddPadding")
          /\ UNCHANGED <<chipsize, source, flashrom, written, nwrites>>

\* result = subprocess.Popen(["flashrom", ..., "-w", filepath, ...]):
\* flashrom starts and reads the image at filepath
OnWrite_Flashrom ==
  /\ wpc = "flashrom"
  /\ flashrom' = <<[path |-> filepath,
                    image |-> IF filepath = "copy" THEN filecopy[1] ELSE file]>>
  /\ source' = IF filepath = "copy" THEN source ELSE <<file>>
  /\ trace' = Append(trace, "flashrom")
  /\ wpc' = "flashing"
  /\ UNCHANGED <<file, filecopy, pad_file, filepath, chipsize, outside,
                 written, nwrites, svars>>

\* for stdout_line in iter(result.stdout.readline, ""): the handler waits
\* for flashrom to finish, then returns
OnWrite_Return ==
  /\ wpc = "flashing"
  /\ UNCHANGED <<file, filecopy, pad_file, filepath, outside, svars>>
  /\ OnWrite_End("flashed", trace)

NextWrite ==
  \/ \E f \in OutsideFiles : Outside_Write(f)
  \/ \E nchips \in 0..1, parsed \in BOOLEAN :
       \E dump \in IF nchips = 0 \/ ~parsed THEN {<<>>} ELSE Dumps :
          GetChipInfo_Read(nchips, parsed, dump)
  \/ GetChipInfo_RemovePadding
  \/ \E has_path \in BOOLEAN, nchips \in 0..1, path \in SavePaths :
       \E dump \in IF ~has_path \/ nchips = 0 \/ path = "other"
                   THEN {<<>>} ELSE Dumps :
          OnSave_Read(has_path, nchips, path, dump)
  \/ \E remove_padding \in BOOLEAN : OnSave_RemovePadding(remove_padding)
  \/ PadFile_Toggle
  \/ \E has_path \in BOOLEAN, nchips \in 0..1 : OnWrite_Begin(has_path, nchips)
  \/ \E answer_yes \in BOOLEAN : OnWrite_ShowModal(answer_yes)
  \/ \E out \in ChipSizeOutputs : OnWrite_ChipSize(out)
  \/ \E same_file \in BOOLEAN : OnWrite_Copy(same_file)
  \/ OnWrite_AddPadding
  \/ OnWrite_Flashrom
  \/ OnWrite_Return

\* the selected file is one of the contents it may be given from outside
InitWrite == Init /\ file \in OutsideFiles

SpecWrite == InitWrite /\ [][NextWrite]_vars

\* ---------------------------------------------------------------- typing
TypeOK ==
  /\ file \in Seq(Bytes)
  /\ Len(file) <= (IF MaxLen > MaxTarget THEN MaxLen ELSE MaxTarget)
  /\ pc \in {"idle", "seek", "read", "test", "truncate"}
  /\ padding_size \in Nat
  /\ reads \in Nat
  /\ byte \in {<<>>} \cup {<<b>> : b \in Bytes}
  /\ Len(calls) <= MaxCalls

\* ------------------------------------------------- vocabulary of the claims

\* number of consecutive fill bytes at the end of f
RECURSIVE TrailingFill(_)
TrailingFill(f) ==
  IF f = <<>> THEN 0
  ELSE IF f[Len(f)] = FillByte THEN 1 + TrailingFill(SubSeq(f, 1, Len(f) - 1))
  ELSE 0

AllFill(f) == \A i \in 1..Len(f) : f[i] = FillByte

Removals == {i \in 1..Len(calls) : calls[i].op = "RemovePadding"}
Additions == {i \in 1..Len(calls) : calls[i].op = "AddPadding"}

Last(f) == f[Len(f)]

Max(a, b) == IF a > b THEN a ELSE b

\* ------------------------------------------------------------------ claims

\* C1: every RemovePadding call returns k, the number of consecutive 0xFF
\* bytes at the end of the content B it started from, and leaves the file
\* holding exactly the first Len(B) - k bytes of B.
C1_RemoveReturnsTrailingCount ==
  \A i \in Removals :
    LET c == calls[i]
        k == TrailingFill(c.before)
    IN /\ c.ret = <<k>>
       /\ c.after = SubSeq(c.before, 1, Len(c.before) - k)

\* C2: after a RemovePadding call the file is empty or its last byte is not
\* 0xFF, and it is empty only if it was empty or all 0xFF before.
C2_NoTrailingFillAfterRemove ==
  \A i \in Removals :
    LET c == calls[i]
    IN /\ (c.after = <<>> \/ Last(c.after) # FillByte)
       /\ (c.after = <<>> => AllFill(c.before))

\* C3: AddPadding with target T >= N returns T - N and leaves a file of
\* length T that starts with the N original bytes and ends with T - N bytes
\* 0xFF; with T = N it returns 0 and the file is unchanged.
C3_AddPadsToTarget ==
  \A i \in Additions :
    LET c == calls[i]
        N == Len(c.before)
        T == c.target
    IN T >= N =>
         /\ ~c.raised
         /\ c.ret = <<T - N>>
         /\ Len(c.after) = T
         /\ SubSeq(c.after, 1, N) = c.before
         /\ \A j \in (N + 1)..T : c.after[j] = FillByte
         /\ (T = N => c.ret = <<0>> /\ c.after = c.before)

\* a first AddPadding that grew a non-empty file, then one with T = N
C3_Witness ==
  /\ Len(calls) = 2
  /\ calls[1].op = "AddPadding"
  /\ calls[1].before # <<>>
  /\ calls[1].target > Len(calls[1].before)
  /\ calls[2].op = "AddPadding"
  /\ calls[2].target = Len(calls[2].before)

\* C4: RemovePadding on a 0-byte file returns 0 without raising and leaves
\* the file at 0 bytes.
C4_RemoveOnEmptyReturnsZero ==
  \A i \in Removals :
    LET c == calls[i]
    IN c.before = <<>> =>
         /\ ~c.raised
         /\ c.ret = <<0>>
         /\ c.after = <<>>

\* C5: RemovePadding on a file of N >= 1 bytes that are all 0xFF returns N
\* without raising and leaves the file empty.
C5_RemoveOnAllFillEmptiesFile ==
  \A i \in Removals :
    LET c == calls[i]
    IN (c.before # <<>> /\ AllFill(c.before)) =>
         /\ ~c.raised
         /\ c.ret = <<Len(c.before)>>
         /\ c.after = <<>>

\* C6: AddPadding with a target smaller than the current size fails with an
\* error instead of returning: no (negative) count is returned and the file
\* is left as it was.
C6_AddRejectsSmallerTarget ==
  \A i \in Additions :
    LET c == calls[i]
    IN c.target < Len(c.before) =>
         /\ c.raised
         /\ c.ret = <<>>
         /\ c.after = c.before

\* C7: a RemovePadding call made immediately after another RemovePadding
\* call returns 0 and leaves the file as the first call left it.
C7_RemoveIsIdempotent ==
  \A i \in Removals :
    (i + 1) \in Removals =>
      /\ calls[i + 1].ret = <<0>>
      /\ calls[i + 1].after = calls[i].after

\* C8: for content B not ending in 0xFF (B may be empty) and target T >= N,
\* AddPadding followed by RemovePadding restores B, and RemovePadding
\* returns the count AddPadding returned.
C8_AddThenRemoveRoundTrip ==
  \A i \in Additions :
    LET a == calls[i]
    IN ( /\ (i + 1) \in Removals
         /\ a.target >= Len(a.before)
         /\ (a.before # <<>> => Last(a.before) # FillByte) ) =>
         /\ calls[i + 1].after = a.before
         /\ calls[i + 1].ret = a.ret

\* C9: RemovePadding on a non-empty file whose last byte is not 0xFF returns
\* 0 and leaves the file unchanged, also when 0xFF occurs earlier in it.
C9_RemoveKeepsUnpaddedFile ==
  \A i \in Removals :
    LET c == calls[i]
    IN (c.before # <<>> /\ Last(c.before) # FillByte) =>
         /\ ~c.raised
         /\ c.ret = <<0>>
         /\ c.after = c.before

\* a completed removal on a file ending in a non-fill byte with an earlier 0xFF
C9_Witness ==
  \E i \in Removals :
    LET c == calls[i]
    IN /\ Len(c.before) >= 2
       /\ Last(c.before) # FillByte
       /\ \E j \in 1..(Len(c.before) - 1) : c.before[j] = FillByte
       /\ ~c.raised

\* C10: the backward scan of RemovePadding ends normally on every file of
\* length N: it raises nothing, reads at most N + 1 times, and goes on to
\* the truncate step.
C10_ScanTerminatesNormally ==
  /\ \A i \in Removals :
       /\ ~calls[i].raised
       /\ calls[i].reads <= Len(calls[i].before) + 1
  /\ (pc \in {"seek", "read", "test", "truncate"} => reads <= Len(before) + 1)


\* C11: for every content B of length N and every integer target T, also
\* T < N, AddPadding returns normally and leaves a file of length max(N, T)
\* that starts with B and holds only 0xFF beyond position N.
C11_AddNeverShortens ==
  \A i \in Additions :
    LET c == calls[i]
        N == Len(c.before)
        T == c.target
    IN /\ ~c.raised
       /\ Len(c.after) = Max(N, T)
       /\ SubSeq(c.after, 1, N) = c.before
       /\ \A j \in (N + 1)..Len(c.after) : c.after[j] = FillByte

\* an AddPadding call on a non-empty file with 0 < T < N, and one with T < 0
C11_Witness ==
  /\ Len(calls) = 2
  /\ calls[1].op = "AddPadding"
  /\ calls[1].target > 0
  /\ calls[1].target < Len(calls[1].before)
  /\ calls[2].op = "AddPadding"
  /\ calls[2].target < 0
  /\ calls[2].after = calls[1].before


\* C12: an OnWrite with the pad option checked pads only a copy in the
\* temporary directory: OnWrite never modifies the selected file (it holds
\* what was last put there from outside), the copy is made and AddPadding
\* run on it before flashrom is invoked, and flashrom is given the padded
\* copy; with the option unchecked nothing is copied or padded and flashrom
\* is given the selected file itself.
C12_PadsOnlyTemporaryCopy ==
  /\ file = outside
  /\ flashrom # <<>> =>
       LET r == flashrom[1]
           N == Len(source[1])
           T == chipsize.value
       IN IF pad_file
          THEN /\ trace = <<"copy", "AddPadding", "flashrom">>
               /\ r.path = "copy"
               /\ r.image = filecopy[1]
               /\ Len(r.image) = Max(N, T)
               /\ SubSeq(r.image, 1, N) = source[1]
               /\ \A j \in (N + 1)..Len(r.image) : r.image[j] = FillByte
          ELSE /\ trace = <<"flashrom">>
               /\ r.path = "selected"
               /\ r.image = source[1]
  /\ \A i \in 1..Len(written) :
       LET w == written[i]
       IN /\ (w.outcome = "flashed" /\ w.pad) =>
               w.trace = <<"copy", "AddPadding", "flashrom">>
          /\ (w.outcome # "flashed") =>
               \A j \in 1..Len(w.trace) : w.trace[j] # "flashrom"
          /\ ~w.pad =>
               \A j \in 1..Len(w.trace) : w.trace[j] = "flashrom"

\* in a second OnWrite flashrom runs on a copy grown by padding, and the
\* selected file has been rewritten from outside since the copy was taken
C12_Witness ==
  /\ flashrom # <<>>
  /\ pad_file
  /\ nwrites >= 1
  /\ source[1] # <<>>
  /\ Len(flashrom[1].image) > Len(source[1])
  /\ file # source[1]

====
